---- MODULE Spec2Model ----
(***************************************************************************)
(* A model of tree.hpp: node<T> (a value plus a std::list of child nodes, *)
(* held by value), its dfs_iterator and bfs_iterator, contains,            *)
(* contains_recursive, remove_recursive and the two operator>>.            *)
(*                                                                         *)
(* Every node object lives at an address.  Addresses are the numbers       *)
(* 1..MaxNodes; kids[a] is the std::list base of the node at address a     *)
(* (the addresses of its elements, in list order) and data_[a] its data_   *)
(* member.  roots are the node objects the caller itself holds.            *)
(***************************************************************************)
EXTENDS Integers, Sequences, FiniteSets, TLC

MaxNodes == 4

Ids == 1..MaxNodes

\* The values of T.  The code only ever compares two values with ==, so
\* two distinct values stand for "equal to the argument" and "different".
Vals == {"x", "y"}

\* The null pointer operator-> returns for an empty stack_ / queue_.
Null == 0
\* The outcome "the process is killed" of an undefined dereference.
Crash == -1
\* data_ of an address that holds no node.
NoData == "-"

VARIABLES
    data_,   \* address -> value stored there (NoData when free)
    kids,    \* address -> sequence of the addresses of its list elements
    live,    \* addresses that hold a node
    roots,   \* nodes owned by the caller
    dfs,     \* the caller's dfs_iterator: [active, root, stack_, out]
    bfs,     \* the caller's bfs_iterator: [active, root, queue_, out]
    last     \* the most recent call, its argument, result and prior structure

vars == <<data_, kids, live, roots, dfs, bfs, last>>

----------------------------------------------------------------------------
\* Helpers on sequences and on the structure

Last(s) == s[Len(s)]

Range(s) == {s[i] : i \in 1..Len(s)}

Reverse(s) == [i \in 1..Len(s) |-> s[Len(s) + 1 - i]]

RECURSIVE Flatten(_)
Flatten(ss) == IF ss = <<>> THEN <<>> ELSE Head(ss) \o Flatten(Tail(ss))

\* Nodes reachable from those of S through at most j list hops.
RECURSIVE Within(_, _, _)
Within(k, S, j) ==
    LET T == S \cup UNION {Range(k[x]) : x \in S}
    IN  IF j = 0 \/ T = S THEN S ELSE Within(k, T, j - 1)

Subtree(k, n) == Within(k, {n}, MaxNodes)

Descendants(k, n) == Within(k, Range(k[n]), MaxNodes)

\* The definition of pre-order: a node, then the pre-order of each child.
RECURSIVE PreOrder(_, _)
PreOrder(k, n) ==
    <<n>> \o Flatten([i \in 1..Len(k[n]) |-> PreOrder(k, k[n][i])])

\* The definition of level order: level 0 is the root, level d+1 the
\* children of the nodes of level d, parents in order, children in order.
RECURSIVE Levels(_, _)
Levels(k, lvl) ==
    IF lvl = <<>> THEN <<>>
    ELSE lvl \o Levels(k, Flatten([i \in 1..Len(lvl) |-> k[lvl[i]]]))

LevelOrder(k, n) == Levels(k, <<n>>)

ValuesOf(d, s) == [i \in 1..Len(s) |-> d[s[i]]]

----------------------------------------------------------------------------
\* dfs_iterator.  stack_ is a sequence whose head is the top.

dfs_end == <<>>

dfs_begin(n) == <<n>>

\* stack_.push(x) for every x of xs, in the order of xs.
RECURSIVE PushAll(_, _)
PushAll(st, xs) ==
    IF xs = <<>> THEN st ELSE PushAll(<<Head(xs)>> \o st, Tail(xs))

\* DfsNext with the children pushed from begin to end.
DfsNextForward(k, st) ==
    IF st # <<>>
    THEN LET n == Head(st) IN PushAll(Tail(st), k[n])
    ELSE st

\* DfsNext with the pop after the pushes, so that it takes a child off.
DfsNextPopAfter(k, st) ==
    IF st # <<>>
    THEN LET n == Head(st) IN Tail(PushAll(st, Reverse(k[n])))
    ELSE st

\* operator++: pop the top, push its children from rbegin to rend.
DfsNext(k, st) ==
    IF st # <<>>
    THEN LET n == Head(st) IN PushAll(Tail(st), Reverse(k[n]))
    ELSE st

\* operator->
DfsArrow(st) == IF st # <<>> THEN Head(st) ELSE Null

\* operator*: *stack_.top() with no emptiness test; top() of an empty
\* stack is undefined, so any outcome is possible.
DfsStar(st) == IF st # <<>> THEN {Head(st)} ELSE {Crash, Null} \cup Ids

\* operator!= and operator==
DfsNeq(a, b) == DfsArrow(a) # DfsArrow(b)

DfsEq(a, b) == ~DfsNeq(a, b)

----------------------------------------------------------------------------
\* bfs_iterator.  queue_ is a sequence whose head is the front.

bfs_end == <<>>

bfs_begin(n) == <<n>>

\* queue_.push(x) for every x of xs, in the order of xs.
RECURSIVE EnqueueAll(_, _)
EnqueueAll(q, xs) ==
    IF xs = <<>> THEN q ELSE EnqueueAll(Append(q, Head(xs)), Tail(xs))

\* BfsNext with the children put at the front, as a stack would.
BfsNextLifo(k, q) ==
    IF q # <<>>
    THEN LET n == Head(q) IN k[n] \o Tail(q)
    ELSE q

\* operator++: pop the front, push its children from begin to end.
BfsNext(k, q) ==
    IF q # <<>>
    THEN LET n == Head(q) IN EnqueueAll(Tail(q), k[n])
    ELSE q

BfsArrow(q) == IF q # <<>> THEN Head(q) ELSE Null

BfsStar(q) == IF q # <<>> THEN {Head(q)} ELSE {Crash, Null} \cup Ids

BfsNeq(a, b) == BfsArrow(a) # BfsArrow(b)

BfsEq(a, b) == ~BfsNeq(a, b)

\* The sequence a caller's loop "for (it = begin; it != end; ++it)" reads.
RECURSIVE DfsRun(_, _)
DfsRun(k, st) ==
    IF DfsNeq(st, dfs_end) THEN <<DfsArrow(st)>> \o DfsRun(k, DfsNext(k, st))
    ELSE <<>>

RECURSIVE BfsRun(_, _)
BfsRun(k, q) ==
    IF BfsNeq(q, bfs_end) THEN <<BfsArrow(q)>> \o BfsRun(k, BfsNext(k, q))
    ELSE <<>>

----------------------------------------------------------------------------
\* node: comparison, queries, removal, append

\* bool operator==(const value_type&): compares data_ with the value.
EqValue(d, n, v) == d[n] = v

\* Whether "node == value" has a viable operator==.  Both member
\* operator== are declared without const, so they accept a non-const left
\* operand only; the namespace-scope template needs node<T> on both sides.
EqViable(constNode) == ~constNode

BoolAns(b) == IF b THEN "true" ELSE "false"

\* contains: std::find over this->begin()..this->end() inside a const
\* member function, so every element is compared as a const node.
contains(k, d, n, v) ==
    IF EqViable(TRUE)
    THEN BoolAns(\E i \in 1..Len(k[n]) : EqValue(d, k[n][i], v))
    ELSE "ill-formed"

\* std::find(first, last, v) over bfs iterators: advance while first != last
\* and *first is not equal to v.  operator* yields a non-const node.
RECURSIVE BfsFind(_, _, _, _)
BfsFind(k, d, q, v) ==
    IF BfsNeq(q, bfs_end) /\ ~EqValue(d, Head(q), v)
    THEN BfsFind(k, d, BfsNext(k, q), v)
    ELSE q

contains_recursive(k, d, n, v) ==
    IF EqViable(FALSE)
    THEN BoolAns(BfsNeq(BfsFind(k, d, bfs_begin(n), v), bfs_end))
    ELSE "ill-formed"

\* ListRemove erasing the first equal element only.
ListRemoveFirst(d, s, v) ==
    IF \E i \in 1..Len(s) : EqValue(d, s[i], v)
    THEN LET j == CHOOSE i \in 1..Len(s) :
                     /\ EqValue(d, s[i], v)
                     /\ \A h \in 1..(i - 1) : ~EqValue(d, s[h], v)
         IN  SubSeq(s, 1, j - 1) \o SubSeq(s, j + 1, Len(s))
    ELSE s

\* ListRemove as clear(): every element erased.
ListClear(d, s, v) == <<>>

\* std::list::remove(value): erases every element equal to the value.
ListRemove(d, s, v) == SelectSeq(s, LAMBDA c : ~EqValue(d, c, v))

\* remove_recursive: first the call on every child in list order, then
\* remove(data) on the own list; many adds up the children's results and
\* the difference of the list's size.  Yields the lists and the count.
RECURSIVE remove_recursive(_, _, _, _), RemoveLoop(_, _, _, _, _, _)

\* remove_recursive with remove(data) on the own list before the calls on
\* the children.
remove_own_first(k, d, n, v) ==
    LET size == Len(k[n])
        kept == ListRemove(d, k[n], v)
        a == RemoveLoop([k EXCEPT ![n] = kept], d, n, v, 1, 0)
    IN  [k |-> a.k, many |-> a.many + (size - Len(kept))]

remove_recursive(k, d, n, v) ==
    LET a == RemoveLoop(k, d, n, v, 1, 0)
        size == Len(a.k[n])
        kept == ListRemove(d, a.k[n], v)
    IN  [k |-> [a.k EXCEPT ![n] = kept], many |-> a.many + (size - Len(kept))]

RemoveLoop(k, d, n, v, i, many) ==
    IF i > Len(k[n]) THEN [k |-> k, many |-> many]
    ELSE LET r == remove_recursive(k, d, k[n][i], v)
         IN  RemoveLoop(r.k, d, n, v, i + 1, many + r.many)

\* The addresses a node allocation can return.
Free(lv) == Ids \ lv

RECURSIVE Lowest(_, _)
Lowest(S, cnt) ==
    IF cnt = 0 THEN <<>>
    ELSE LET m == CHOOSE x \in S : \A y \in S : x <= y
         IN  <<m>> \o Lowest(S \ {m}, cnt - 1)

IndexOf(s, x) == CHOOSE i \in 1..Len(s) : s[i] = x

\* node(const node& other): the list base is copied element by element
\* (each element by this same constructor) and data_ is copied.  The copy
\* of b is built at fresh addresses; b and its subtree stay as they are.
CopyNode(k, d, lv, b) ==
    LET src == PreOrder(k, b)
        dst == Lowest(Free(lv), Len(src))
        to(x) == dst[IndexOf(src, x)]
        fresh == Range(dst)
    IN  [k |-> [x \in Ids |->
                  IF x \in fresh
                  THEN LET o == src[IndexOf(dst, x)]
                       IN  [i \in 1..Len(k[o]) |-> to(k[o][i])]
                  ELSE k[x]],
         d |-> [x \in Ids |->
                  IF x \in fresh THEN d[src[IndexOf(dst, x)]] ELSE d[x]],
         live |-> lv \cup fresh,
         at |-> dst[1]]

\* AppendNode linking b itself into a's list instead of a copy of it.
AppendNodeAlias(k, d, lv, a, b) ==
    LET nk == [k EXCEPT ![a] = Append(@, b)]
    IN  [k |-> nk, d |-> d, live |-> lv, ret |-> Last(nk[a])]

\* operator>>(node<T>& a, node<T>& b): a.push_back(b); return a.back();
\* push_back copy-constructs the new element from b, then links it.
AppendNode(k, d, lv, a, b) ==
    LET c == CopyNode(k, d, lv, b)
        nk == [c.k EXCEPT ![a] = Append(@, c.at)]
    IN  [k |-> nk, d |-> c.d, live |-> c.live, ret |-> Last(nk[a])]

\* AppendValue returning a itself instead of a.back().
AppendValueReturnsTarget(k, d, lv, a, v) ==
    LET x == Lowest(Free(lv), 1)[1]
        nk == [k EXCEPT ![x] = <<>>, ![a] = Append(@, x)]
    IN  [k |-> nk, d |-> [d EXCEPT ![x] = v], live |-> lv \cup {x},
         ret |-> a]

\* operator>>(node<T>& a, const T& b): a node is constructed from the value
\* (no children) and push_back copies it to the end of a's list.
AppendValue(k, d, lv, a, v) ==
    LET x == Lowest(Free(lv), 1)[1]
        nk == [k EXCEPT ![x] = <<>>, ![a] = Append(@, x)]
    IN  [k |-> nk, d |-> [d EXCEPT ![x] = v], live |-> lv \cup {x},
         ret |-> Last(nk[a])]

----------------------------------------------------------------------------
\* The program: a caller that constructs nodes and calls the operations.

NoIter == [active |-> FALSE, root |-> Null, cont |-> <<>>, out |-> <<>>]

\* The record of a call: op, the node it was made on, its value argument,
\* the pointer or count it returned (ret), the answer of a query (ans), the
\* node whose append returned the target (from, Null when the target was
\* not the result of the preceding append), the node argument of a >> b
\* (src), and the structure before the call.
Call(op, n, v, ret, ans, from, src) ==
    [op |-> op, node |-> n, val |-> v, ret |-> ret, ans |-> ans,
     from |-> from, src |-> src, pk |-> kids, pd |-> data_, pl |-> live]

Appends == {"append", "append_node"}

\* The target of this call is the reference the preceding append returned.
ChainFrom(n) ==
    IF last.op \in Appends /\ last.ret = n THEN last.node ELSE Null

\* tree<T> root(v): the caller's tree, a childless node.
Init ==
    /\ \E v \in Vals : data_ = [x \in Ids |-> IF x = 1 THEN v ELSE NoData]
    /\ kids = [x \in Ids |-> <<>>]
    /\ live = {1}
    /\ roots = {1}
    /\ dfs = NoIter
    /\ bfs = NoIter
    /\ last = [op |-> "construct", node |-> 1, val |-> data_[1], ret |-> 1,
               ans |-> "none", from |-> Null, src |-> Null,
               pk |-> [x \in Ids |-> <<>>], pd |-> [x \in Ids |-> NoData],
               pl |-> {}]

\* a >> v
Append_(a, v) ==
    /\ a \in live
    /\ Free(live) # {}
    /\ LET r == AppendValue(kids, data_, live, a, v)
       IN  /\ kids' = r.k
           /\ data_' = r.d
           /\ live' = r.live
           /\ last' = Call("append", a, v, r.ret, "none", ChainFrom(a), Null)
    /\ dfs' = NoIter
    /\ bfs' = NoIter
    /\ UNCHANGED roots

\* a >> b
AppendSubtree(a, b) ==
    /\ a \in live
    /\ b \in live
    /\ Cardinality(Subtree(kids, b)) <= Cardinality(Free(live))
    /\ LET r == AppendNode(kids, data_, live, a, b)
       IN  /\ kids' = r.k
           /\ data_' = r.d
           /\ live' = r.live
           /\ last' = Call("append_node", a, data_[b], r.ret, "none",
                           ChainFrom(a), b)
    /\ dfs' = NoIter
    /\ bfs' = NoIter
    /\ UNCHANGED roots

\* n.remove_recursive(v).  The erased elements are destroyed, and with them
\* the lists they hold.  v is an object of the caller's own; a reference to
\* the data_ of a node below n would dangle once that node is erased.
RemoveRecursive(n, v) ==
    /\ n \in live
    /\ LET r == remove_recursive(kids, data_, n, v)
           keep == UNION {Subtree(r.k, x) : x \in roots}
       IN  /\ kids' = [x \in Ids |-> IF x \in keep THEN r.k[x] ELSE <<>>]
           /\ data_' = [x \in Ids |-> IF x \in keep THEN data_[x] ELSE NoData]
           /\ live' = keep
           /\ last' = Call("remove", n, v, r.many, "none", Null, Null)
    /\ dfs' = NoIter
    /\ bfs' = NoIter
    /\ UNCHANGED roots

Contains(n, v) ==
    /\ n \in live
    /\ last' = Call("contains", n, v, Null, contains(kids, data_, n, v), Null,
                    Null)
    /\ dfs' = NoIter
    /\ bfs' = NoIter
    /\ UNCHANGED <<data_, kids, live, roots>>

ContainsRecursive(n, v) ==
    /\ n \in live
    /\ last' = Call("contains_recursive", n, v, Null,
                    contains_recursive(kids, data_, n, v), Null, Null)
    /\ dfs' = NoIter
    /\ bfs' = NoIter
    /\ UNCHANGED <<data_, kids, live, roots>>

\* it = n.dfs_begin()
DfsBegin(n) ==
    /\ n \in live
    /\ dfs' = [active |-> TRUE, root |-> n, cont |-> dfs_begin(n), out |-> <<>>]
    /\ last' = Call("dfs_begin", n, NoData, Null, "none", Null, Null)
    /\ bfs' = NoIter
    /\ UNCHANGED <<data_, kids, live, roots>>

\* it = n.dfs_end()
DfsEnd(n) ==
    /\ n \in live
    /\ dfs' = [active |-> TRUE, root |-> Null, cont |-> dfs_end, out |-> <<>>]
    /\ last' = Call("dfs_end", n, NoData, Null, "none", Null, Null)
    /\ bfs' = NoIter
    /\ UNCHANGED <<data_, kids, live, roots>>

\* ++it; out keeps what it.operator->() gave before each advance.
DfsIncr ==
    /\ dfs.active
    /\ Len(dfs.out) <= MaxNodes
    /\ dfs' = [dfs EXCEPT !.cont = DfsNext(kids, dfs.cont),
                          !.out = Append(@, DfsArrow(dfs.cont))]
    /\ last' = Call("dfs_incr", dfs.root, NoData, Null, "none", Null, Null)
    /\ UNCHANGED <<data_, kids, live, roots, bfs>>

\* it.operator->()
DfsDerefArrow ==
    /\ dfs.active
    /\ last' = Call("dfs_arrow", dfs.root, NoData, DfsArrow(dfs.cont), "none",
                    Null, Null)
    /\ UNCHANGED <<data_, kids, live, roots, dfs, bfs>>

\* *it
DfsDerefStar ==
    /\ dfs.active
    /\ \E r \in DfsStar(dfs.cont) :
          last' = Call("dfs_star", dfs.root, NoData, r, "none", Null, Null)
    /\ UNCHANGED <<data_, kids, live, roots, dfs, bfs>>

BfsBegin(n) ==
    /\ n \in live
    /\ bfs' = [active |-> TRUE, root |-> n, cont |-> bfs_begin(n), out |-> <<>>]
    /\ last' = Call("bfs_begin", n, NoData, Null, "none", Null, Null)
    /\ dfs' = NoIter
    /\ UNCHANGED <<data_, kids, live, roots>>

BfsEnd(n) ==
    /\ n \in live
    /\ bfs' = [active |-> TRUE, root |-> Null, cont |-> bfs_end, out |-> <<>>]
    /\ last' = Call("bfs_end", n, NoData, Null, "none", Null, Null)
    /\ dfs' = NoIter
    /\ UNCHANGED <<data_, kids, live, roots>>

BfsIncr ==
    /\ bfs.active
    /\ Len(bfs.out) <= MaxNodes
    /\ bfs' = [bfs EXCEPT !.cont = BfsNext(kids, bfs.cont),
                          !.out = Append(@, BfsArrow(bfs.cont))]
    /\ last' = Call("bfs_incr", bfs.root, NoData, Null, "none", Null, Null)
    /\ UNCHANGED <<data_, kids, live, roots, dfs>>

BfsDerefArrow ==
    /\ bfs.active
    /\ last' = Call("bfs_arrow", bfs.root, NoData, BfsArrow(bfs.cont), "none",
                    Null, Null)
    /\ UNCHANGED <<data_, kids, live, roots, dfs, bfs>>

BfsDerefStar ==
    /\ bfs.active
    /\ \E r \in BfsStar(bfs.cont) :
          last' = Call("bfs_star", bfs.root, NoData, r, "none", Null, Null)
    /\ UNCHANGED <<data_, kids, live, roots, dfs, bfs>>

\* The caller building and pruning its tree.
Next ==
    \/ \E a \in Ids, v \in Vals : Append_(a, v)
    \/ \E a \in Ids, b \in Ids : AppendSubtree(a, b)
    \/ \E n \in Ids, v \in Vals : RemoveRecursive(n, v)

Spec == Init /\ [][Next]_vars

\* The trees of n nodes, addressed in the order a caller builds them who
\* appends every node before its right siblings: par[i] is the parent of
\* node i, a node on the path from node i - 1 up to the root.
RECURSIVE Ancestors(_, _)
Ancestors(par, i) == IF i = 1 THEN {1} ELSE {i} \cup Ancestors(par, par[i])

Shapes(n) ==
    {par \in [2..n -> 1..n] :
        \A i \in 2..n : par[i] < i /\ par[i] \in Ancestors(par, i - 1)}

ChildrenOf(par, n, a) ==
    LET S == {i \in 2..n : par[i] = a}
    IN  Lowest(S, Cardinality(S))

\* A tree the caller has built, of any shape and values within the bounds.
InitIter ==
    /\ \E n \in 1..MaxNodes : \E par \in Shapes(n) : \E val \in [1..n -> Vals] :
          /\ kids = [x \in Ids |-> IF x <= n THEN ChildrenOf(par, n, x) ELSE <<>>]
          /\ data_ = [x \in Ids |-> IF x <= n THEN val[x] ELSE NoData]
          /\ live = 1..n
    /\ roots = {1}
    /\ dfs = NoIter
    /\ bfs = NoIter
    /\ last = [op |-> "construct", node |-> 1, val |-> data_[1], ret |-> 1,
               ans |-> "none", from |-> Null, src |-> Null,
               pk |-> kids, pd |-> data_, pl |-> live]

\* The caller reading its tree: queries and iteration.
NextIter ==
    \/ \E n \in Ids, v \in Vals : Contains(n, v)
    \/ \E n \in Ids, v \in Vals : ContainsRecursive(n, v)
    \/ \E n \in Ids : DfsBegin(n)
    \/ \E n \in Ids : DfsEnd(n)
    \/ DfsIncr
    \/ DfsDerefArrow
    \/ DfsDerefStar
    \/ \E n \in Ids : BfsBegin(n)
    \/ \E n \in Ids : BfsEnd(n)
    \/ BfsIncr
    \/ BfsDerefArrow
    \/ BfsDerefStar

SpecIter == InitIter /\ [][NextIter]_vars

----------------------------------------------------------------------------
\* Properties of iteration (checked under SpecIter)

\* What the caller read while the iterator was not at the end.
Visited(out) == SelectSeq(out, LAMBDA x : x # Null)

IsPrefix(s, t) == Len(s) <= Len(t) /\ s = SubSeq(t, 1, Len(s))

SizeOf(k, n) == IF n = Null THEN 0 ELSE Cardinality(Subtree(k, n))

\* The number of list hops from a node of S (at depth dep) down to x.
RECURSIVE DepthFrom(_, _, _, _)
DepthFrom(k, S, x, dep) ==
    IF x \in S \/ S = {} THEN dep
    ELSE DepthFrom(k, UNION {Range(k[y]) : y \in S}, x, dep + 1)

\* C1: the nodes a DFS iterator started on a node gives, read before each
\* advance until it equals dfs_end, are the pre-order sequence of that
\* node's subtree: at every point the nodes read so far are a prefix of the
\* pre-order, the iterator stands on the next one, and at the end they are
\* the whole pre-order.
C1_DfsIsPreOrder ==
    (dfs.active /\ dfs.root # Null) =>
        LET po == PreOrder(kids, dfs.root)
            vis == Visited(dfs.out)
        IN  /\ IsPrefix(vis, po)
            /\ DfsNeq(dfs.cont, dfs_end) =>
                  /\ Len(vis) < Len(po)
                  /\ DfsArrow(dfs.cont) = po[Len(vis) + 1]
            /\ DfsEq(dfs.cont, dfs_end) => vis = po

C1_Witness ==
    /\ dfs.active
    /\ dfs.root = 1
    /\ last.op = "dfs_incr"
    /\ DfsEq(dfs.cont, dfs_end)
    /\ Len(Visited(dfs.out)) >= 4
    /\ Visited(dfs.out) = PreOrder(kids, 1)
    /\ PreOrder(kids, 1) # LevelOrder(kids, 1)

\* C2: the nodes a BFS iterator started on a node gives, read before each
\* advance until it equals bfs_end, are the subtree in level order: parents
\* in visiting order, children in list order, and no node comes before a
\* node of smaller depth.
C2_BfsIsLevelOrder ==
    (bfs.active /\ bfs.root # Null) =>
        LET lo == LevelOrder(kids, bfs.root)
            vis == Visited(bfs.out)
        IN  /\ IsPrefix(vis, lo)
            /\ BfsNeq(bfs.cont, bfs_end) =>
                  /\ Len(vis) < Len(lo)
                  /\ BfsArrow(bfs.cont) = lo[Len(vis) + 1]
            /\ BfsEq(bfs.cont, bfs_end) => vis = lo
            /\ \A i, j \in 1..Len(vis) :
                  i < j => DepthFrom(kids, {bfs.root}, vis[i], 0)
                             <= DepthFrom(kids, {bfs.root}, vis[j], 0)

C2_Witness ==
    /\ bfs.active
    /\ bfs.root = 1
    /\ last.op = "bfs_incr"
    /\ BfsEq(bfs.cont, bfs_end)
    /\ Len(Visited(bfs.out)) >= 4
    /\ Visited(bfs.out) = LevelOrder(kids, 1)
    /\ PreOrder(kids, 1) # LevelOrder(kids, 1)

\* C3: an iterator started on a subtree of N nodes differs from the end
\* sentinel after fewer than N advances and equals it after N advances and
\* after every advance beyond (an end iterator is a subtree of 0 nodes).
C3_EndAfterExactlyN ==
    /\ dfs.active =>
          LET N == SizeOf(kids, dfs.root)
          IN  /\ Len(dfs.out) < N => DfsNeq(dfs.cont, dfs_end)
              /\ Len(dfs.out) >= N => DfsEq(dfs.cont, dfs_end)
    /\ bfs.active =>
          LET N == SizeOf(kids, bfs.root)
          IN  /\ Len(bfs.out) < N => BfsNeq(bfs.cont, bfs_end)
              /\ Len(bfs.out) >= N => BfsEq(bfs.cont, bfs_end)

C3_Witness ==
    /\ dfs.active
    /\ dfs.root # Null
    /\ last.op = "dfs_incr"
    /\ SizeOf(kids, dfs.root) >= 3
    /\ Len(dfs.out) > SizeOf(kids, dfs.root)
    /\ DfsEq(dfs.cont, dfs_end)

\* C8: contains(v) answers whether v is the value of a direct child, and
\* contains_recursive(v) whether v is the value of the node or of one of
\* its descendants.
C8_ContainsShallowAndDeep ==
    /\ last.op = "contains" =>
          last.ans = BoolAns(\E c \in Range(kids[last.node]) :
                                 data_[c] = last.val)
    /\ last.op = "contains_recursive" =>
          last.ans = BoolAns(\E x \in Subtree(kids, last.node) :
                                 data_[x] = last.val)

\* C9: operator-> and operator* of an iterator that equals the end sentinel
\* both give the null "no node" result.
C9_ExhaustedDerefIsNull ==
    /\ (last.op \in {"dfs_arrow", "dfs_star"} /\ DfsEq(dfs.cont, dfs_end)) =>
          last.ret = Null
    /\ (last.op \in {"bfs_arrow", "bfs_star"} /\ BfsEq(bfs.cont, bfs_end)) =>
          last.ret = Null

----------------------------------------------------------------------------
\* Properties of append and removal (checked under Spec)

\* The nodes below n, before the last call, whose value is v.
MatchesBelow(n, v) == {x \in Descendants(last.pk, n) : last.pd[x] = v}

\* C4: remove_recursive(v) returns the number of nodes below the node it
\* was called on whose value was v before the call, those nested beneath
\* another such node and those that are siblings included; none of them is
\* left.
C4_RemoveCountsAllMatches ==
    last.op = "remove" =>
        /\ last.ret = Cardinality(MatchesBelow(last.node, last.val))
        /\ MatchesBelow(last.node, last.val) \cap live = {}

C4_Witness ==
    /\ last.op = "remove"
    /\ last.ret = 3
    /\ \E x, y \in MatchesBelow(last.node, last.val) :
          y \in Range(last.pk[x])
    /\ \E x, y \in MatchesBelow(last.node, last.val) :
          x # y /\ {x, y} \subseteq Range(last.pk[last.node])

\* C5, as stated: after remove_recursive(X) on a node, contains_recursive(X)
\* on that node is false.
C5_NotContainedAfterRemove ==
    last.op = "remove" =>
        contains_recursive(kids, data_, last.node, last.val) = "false"

\* C5, amended: after remove_recursive(X) on a node, no node below it has
\* the value X, and contains_recursive(X) on that node is true exactly when
\* the node's own value is X (the node itself is never removed).
C5_ContainedAfterRemoveIffOwnValue ==
    last.op = "remove" =>
        /\ \A x \in Descendants(kids, last.node) : data_[x] # last.val
        /\ contains_recursive(kids, data_, last.node, last.val)
             = BoolAns(data_[last.node] = last.val)

C5_Witness ==
    /\ last.op = "remove"
    /\ last.ret = 2
    /\ data_[last.node] # last.val
    /\ \E x, y \in MatchesBelow(last.node, last.val) :
          /\ x \in Range(last.pk[last.node])
          /\ y \notin Range(last.pk[last.node])
    /\ contains_recursive(kids, data_, last.node, last.val) = "false"

\* C6: remove_recursive(v) with a value that no node of the subtree has
\* returns 0 and changes nothing: the DFS and the BFS sequences of the
\* subtree, as nodes and as values, are what they were.
C6_AbsentValueIsNoOp ==
    (/\ last.op = "remove"
     /\ \A x \in Subtree(last.pk, last.node) : last.pd[x] # last.val) =>
        /\ last.ret = 0
        /\ DfsRun(kids, dfs_begin(last.node))
             = DfsRun(last.pk, dfs_begin(last.node))
        /\ BfsRun(kids, bfs_begin(last.node))
             = BfsRun(last.pk, bfs_begin(last.node))
        /\ ValuesOf(data_, DfsRun(kids, dfs_begin(last.node)))
             = ValuesOf(last.pd, DfsRun(last.pk, dfs_begin(last.node)))
        /\ kids = last.pk /\ data_ = last.pd /\ live = last.pl

C6_Witness ==
    /\ last.op = "remove"
    /\ \A x \in Subtree(last.pk, last.node) : last.pd[x] # last.val
    /\ Len(DfsRun(kids, dfs_begin(last.node))) >= 4
    /\ DfsRun(kids, dfs_begin(last.node)) # BfsRun(kids, bfs_begin(last.node))
    /\ last.ret = 0

\* C7: a >> x puts exactly one new node at the end of a's list, leaves the
\* list's earlier elements and every other node as they were, and returns
\* the new node; so in root >> x >> y, x is the last child of root and y a
\* child of x and not of root.
C7_AppendAtEndReturnsChild ==
    last.op \in Appends =>
        /\ kids[last.node] = Append(last.pk[last.node], last.ret)
        /\ last.ret \notin last.pl
        /\ data_[last.ret] = last.val
        /\ \A x \in last.pl :
              /\ data_[x] = last.pd[x]
              /\ x # last.node => kids[x] = last.pk[x]
        /\ last.from # Null =>
              /\ Last(kids[last.from]) = last.node
              /\ last.ret \in Range(kids[last.node])
              /\ last.from # last.node => last.ret \notin Range(kids[last.from])

C7_Witness ==
    /\ last.op = "append"
    /\ last.from = 1
    /\ last.node # 1
    /\ Len(kids[1]) >= 2
    /\ Last(kids[1]) = last.node
    /\ kids[last.node] = <<last.ret>>
    /\ last.ret \notin Range(kids[1])

\* The number of places x takes in the lists of the live nodes.
Owners(x) ==
    Cardinality({p \in live \X Ids :
                    p[2] <= Len(kids[p[1]]) /\ kids[p[1]][p[2]] = x})

\* C10: after every append and removal the nodes form a tree: every node
\* but the caller's own is an element of exactly one list, at one place, the
\* caller's node of none, no node is below itself, and the nodes a >> b put
\* under a are new nodes, none of them a node of b or of anything that
\* existed, while b and its subtree are as they were.
C10_OwnershipIsTree ==
    /\ \A x \in Ids :
          /\ x \in roots => x \in live /\ Owners(x) = 0
          /\ x \in live \ roots => Owners(x) = 1
          /\ x \notin live => Owners(x) = 0 /\ kids[x] = <<>>
    /\ \A x \in live : x \notin Descendants(kids, x)
    /\ last.op = "append_node" =>
          /\ Subtree(kids, last.ret) \cap last.pl = {}
          /\ \A x \in Subtree(last.pk, last.src) \ {last.node} :
                kids[x] = last.pk[x]
          /\ ValuesOf(data_, PreOrder(kids, last.ret))
               = ValuesOf(last.pd, PreOrder(last.pk, last.src))

C10_Witness ==
    /\ last.op = "append_node"
    /\ last.node \in Descendants(last.pk, last.src)
    /\ Cardinality(Subtree(kids, last.ret)) >= 2
    /\ Subtree(kids, last.ret) \cap Subtree(last.pk, last.src) = {}

====
